---- MODULE Spec2Model ----
(***************************************************************************)
(* Model of the eSIM bot (src/bot.py): the balances and orders tables, the *)
(* purchase handlers pkg_handler and topup_plan_handler, the /topup        *)
(* command and the payment feed of the receiving wallet.                   *)
(*                                                                         *)
(* Amounts are in cents (1 USDT = 100).  Handlers are asyncio coroutines:  *)
(* one coroutine runs at a time and control passes to another only at an   *)
(* await; `running` names the coroutine that holds the event loop.  A      *)
(* handler's last await (the reply) is followed by no statement, so the    *)
(* handler keeps the loop until Return: no other coroutine is told apart   *)
(* by running before or after that reply.                                  *)
(***************************************************************************)
EXTENDS Integers, Sequences, FiniteSets, TLC

VARIABLES
    balances,   \* table balances: user_id -> balance, one entry per row
    orders,     \* table orders: sequence of rows, index = AUTOINCREMENT id
    hs,         \* per handler invocation: its position and its locals
    running,    \* the coroutine executing between two awaits, or NoHandler
    feed,       \* transactions of the wallet as the explorer lists them, newest first
    credited,   \* history: per user, the sum of the admin credits of line 500
    deducted,   \* history: per user, the sum of the charges taken by line 342/422
    nCredits,   \* history: how many admin credits were applied
    creditRun,  \* history: the run of identical admin credits applied last
    scan,       \* an invocation of check_tron_payment: its arguments and its result
    cache,      \* the dict `cache` of a ttl_cache-wrapped function: key -> (now, result)
    clock,      \* time.time(), in seconds
    calls       \* history: the calls of the wrapper, oldest first

vars == <<balances, orders, hs, running, feed, credited, deducted, nCredits, creditRun, scan,
         cache, clock, calls>>

----------------------------------------------------------------------------
\* Bounds of the model
MaxOrders  == 2     \* rows the orders table may hold
MaxCredits == 3     \* admin credits applied
MaxFeed    == 1     \* transactions in the feed
MaxTxs     == 2     \* transactions in a feed handed to check_tron_payment
MaxLookups == 3     \* calls of a ttl_cache-wrapped function

\* Program constants
MinCharge  == 500   \* 5.0 USDT, lines 322-324 and 402-404
\* the mutated form of PollBudget: one pass more
PollBudget_OffByOne == 15 + 1
PollBudget == 15    \* range(15), lines 354 and 434
FeedLimit  == 20    \* limit=20, line 113
UnitsPerCent == 10000   \* amount_str / 1e6 is USDT, line 119
ttl_seconds == 3600     \* @ttl_cache(ttl_seconds=3600), lines 128 and 153
StartTime  == 1700000000    \* time.time() when the program starts, seconds since 1970

Users      == {1, 2}
ADMIN_IDS  == {1}
Plans      == {"P1"}
TopupPlan  == "TOPUP"
Handlers   == {"h1", "h2"}
NoHandler  == "none"
\* invocations take the free slots in order: which slot holds which is of no account
SlotBefore(g, h) == g = "h1" /\ h = "h2"
ListPrices == {200, 1000}        \* price_s of the callback data, in cents
Buyers     == {2}                \* users who press the plan buttons
CreditTargets  == {2}            \* args[0] of /topup <user_id> <amt>
CreditAmounts  == {-500, 500}    \* float(args[1]) of /topup <user_id> <amt>, in cents
RequestAmounts == {200}          \* float(args[0]) of /topup <amount>, in cents
OrderNos   == {"ON1"}            \* orderNo values the provider returns
NULL       == "NULL"
\* Tokens generate_memo can return (a sample of the 36^12 strings), as characters
Memos      == {<<"A", "B">>, <<"B", "A">>}

----------------------------------------------------------------------------
\* random.choices(...): any token, with no memory of the tokens handed out
generate_memo == Memos

\* SELECT balance ...; row[0] if row else 0.0
GetBalance(uid) == IF uid \in DOMAIN balances THEN balances[uid] ELSE 0

\* the mutated form of InsufficientFunds: any positive balance counts as enough
InsufficientFunds_Positive(bal, price_usd) == bal <= 0

\* if bal < price_usd
InsufficientFunds(bal, price_usd) == bal < price_usd

\* the mutated form of ChargeAmount: the floor is announced but not applied
ChargeAmount_NoFloor(price_s) == price_s

\* if price_usd < 5.0: price_usd = 5.0
ChargeAmount(price_s) == IF price_s < MinCharge THEN MinCharge ELSE price_s

\* UPDATE balances SET balance=? WHERE user_id=?   (no row: nothing is written)
UpdateBalance(uid, new_bal) ==
    IF uid \in DOMAIN balances THEN [balances EXCEPT ![uid] = new_bal] ELSE balances

\* the mutated form of UpsertBalance: on conflict the balance is overwritten
UpsertBalance_Overwrite(tgt, amt) ==
    [u \in DOMAIN balances \cup {tgt} |-> IF u = tgt THEN amt ELSE balances[u]]

\* INSERT INTO balances ... ON CONFLICT(user_id) DO UPDATE SET balance=balance+?
UpsertBalance(tgt, amt) ==
    [u \in DOMAIN balances \cup {tgt} |->
        IF u = tgt THEN GetBalance(tgt) + amt ELSE balances[u]]

\* the mutated form of InsertOrder: the row replaces the user's rows for the plan
\* (an upsert keyed by user and plan), paid or not
InsertOrder_Replace(uid, amount, memo, plan_id) ==
    LET row == [user_id |-> uid, amount |-> amount, memo |-> memo,
                plan_id |-> plan_id, paid |-> 0, order_no |-> NULL]
    IN IF \E i \in DOMAIN orders :
              orders[i].user_id = uid /\ orders[i].plan_id = plan_id
       THEN [i \in DOMAIN orders |->
               IF orders[i].user_id = uid /\ orders[i].plan_id = plan_id
               THEN row ELSE orders[i]]
       ELSE Append(orders, row)

\* INSERT INTO orders (user_id,username,amount,memo,plan_id): paid defaults to 0
InsertOrder(uid, amount, memo, plan_id) ==
    Append(orders, [user_id |-> uid, amount |-> amount, memo |-> memo,
                    plan_id |-> plan_id, paid |-> 0, order_no |-> NULL])

\* the mutated form of MarkOrders: the provider reference is not written
MarkOrders_NoRef(uid, code, memo, order_no) ==
    [i \in DOMAIN orders |->
        IF orders[i].user_id = uid /\ orders[i].plan_id = code /\ orders[i].paid = 0
        THEN [orders[i] EXCEPT !.memo = memo, !.paid = 1]
        ELSE orders[i]]

\* the mutated form of MarkOrders: the WHERE clause has no user_id
MarkOrders_AnyUser(uid, code, memo, order_no) ==
    [i \in DOMAIN orders |->
        IF orders[i].plan_id = code /\ orders[i].paid = 0
        THEN [orders[i] EXCEPT !.memo = memo, !.order_no = order_no, !.paid = 1]
        ELSE orders[i]]

\* UPDATE orders SET memo=?,order_no=?,paid=1 WHERE user_id=? AND plan_id=? AND paid=0
MarkOrders(uid, code, memo, order_no) ==
    [i \in DOMAIN orders |->
        IF orders[i].user_id = uid /\ orders[i].plan_id = code /\ orders[i].paid = 0
        THEN [orders[i] EXCEPT !.memo = memo, !.order_no = order_no, !.paid = 1]
        ELSE orders[i]]

----------------------------------------------------------------------------
\* memo in tx["data"], as a substring
Contains(note, memo) ==
    \E k \in 0..(Len(note) - Len(memo)) :
        \A j \in 1..Len(memo) : note[k + j] = memo[j]

Abs(x) == IF x < 0 THEN -x ELSE x

\* tx.get("data") and memo in tx["data"]: a transaction with no note is passed over
NoteMatches(tx, memo) == tx.data # <<>> /\ Contains(tx.data, memo)

\* the pairs <<amount_str, expected>> of the inputs below that lie exactly 0.01
\* apart and whose difference as doubles is below the double 0.01:
\* abs(float("5010000") / 1e6 - 5.0) is 0.009999999999999787
RoundedBelow == {<<5010000, 500>>}

\* abs(amt - expected) < 0.01 with amt = float(amount_str) / 1e6, on doubles.  A
\* double is within 1e-15 of the decimal it stands for, so two amounts that are
\* not exactly 0.01 apart compare as the decimals do
WithinTolerance(amount_str, expected) ==
    LET d == Abs(amount_str - expected * UnitsPerCent)
    IN d < UnitsPerCent \/ (d = UnitsPerCent /\ <<amount_str, expected>> \in RoundedBelow)

\* what requests.get(url).json() gives now: the newest FeedLimit transactions
Explorer ==
    [ok |-> TRUE,
     data |-> SubSeq(feed, 1, IF Len(feed) < FeedLimit THEN Len(feed) ELSE FeedLimit)]

\* the request fails or the answer is no JSON object: line 116 raises
FetchError == [ok |-> FALSE, data |-> <<>>]

\* a result of the try block: the value returned, or an exception raised
Returned(v) == [raised |-> FALSE, value |-> v]
Raised      == [raised |-> TRUE, value |-> 0]

RECURSIVE ScanFrom(_, _, _, _)
\* the loop of lines 117-121 from the i-th transaction on; falling off its end
\* leaves the try block for `return 0.0`
ScanFrom(txs, memo, expected, i) ==
    IF i > Len(txs) THEN Returned(0)
    ELSE IF NoteMatches(txs[i], memo)
         THEN IF "amount_str" \notin DOMAIN txs[i]
              THEN Raised      \* tx["tokenTransferInfo"]["amount_str"]: KeyError
              ELSE IF WithinTolerance(txs[i].amount_str, expected)
                   THEN Returned(txs[i].amount_str)
                   ELSE ScanFrom(txs, memo, expected, i + 1)
         ELSE ScanFrom(txs, memo, expected, i + 1)

\* lines 116-121, the body of the try block
TryScan(resp, memo, expected) ==
    IF resp.ok THEN ScanFrom(resp.data, memo, expected, 1) ELSE Raised

\* the mutated form of check_tron_payment: the exception reaches the caller
check_tron_payment_NoCatch(resp, memo, expected) == TryScan(resp, memo, expected)

\* lines 115-124: `except Exception` logs and falls through to `return 0.0`.
\* The amount returned is in units of 1e-6 USDT
check_tron_payment(resp, memo, expected) ==
    LET r == TryScan(resp, memo, expected)
    IN IF r.raised THEN Returned(0) ELSE r

----------------------------------------------------------------------------
\* no admin credit was the last operation
NoRun == [tgt |-> 0, amt |-> 0, before |-> 0, had_row |-> FALSE, n |-> 0]

\* attempts counts the passes of the polling loop while it runs
Idle == [pc |-> "idle", uid |-> 0, code |-> "none",
         price_s |-> 0, price_usd |-> 0, bal |-> 0, memo |-> <<>>,
         order_no |-> NULL, attempts |-> 0]

\* check_tron_payment is not being called
NoScan == [pc |-> "none", memo |-> <<>>, expected |-> 0, ok |-> TRUE, result |-> Returned(0)]

\* the orders table takes a further row
RoomForOrder == Len(orders) < MaxOrders

Init ==
    /\ balances = <<>>
    /\ orders = <<>>
    /\ hs = [h \in Handlers |-> Idle]
    /\ running = NoHandler
    /\ feed = <<>>
    /\ credited = [u \in Users |-> 0]
    /\ deducted = [u \in Users |-> 0]
    /\ nCredits = 0
    /\ creditRun = NoRun
    /\ scan = NoScan
    /\ cache = <<>>
    /\ clock = StartTime
    /\ calls = <<>>

\* The dispatch of a callback query up to `await q.answer()` (lines 317-318, 397-398)
Dispatch(h, uid, code, price_s) ==
    /\ running = NoHandler
    /\ hs[h].pc = "idle"
    /\ \A g \in Handlers : SlotBefore(g, h) => hs[g].pc # "idle"
    /\ hs' = [hs EXCEPT ![h] = [Idle EXCEPT !.pc = "answer",
                                  !.uid = uid, !.code = code, !.price_s = price_s,
                                  !.price_usd = price_s]]
    /\ UNCHANGED <<balances, orders, running, feed, credited, deducted, nCredits, scan, cache, clock, calls>>
    /\ creditRun' = NoRun

pkg_handler(h, uid, code, price_s) == Dispatch(h, uid, code, price_s)

topup_plan_handler(h, uid, code, price_s) == Dispatch(h, uid, code, price_s)

\* Lines 325-344 (405-424): the balance check and what follows it up to the provider call
Quote(h, price_usd) ==
    LET uid == hs[h].uid
        bal == GetBalance(uid)
    IN \E memo \in generate_memo :
        IF InsufficientFunds(bal, price_usd)
        THEN /\ RoomForOrder
             /\ orders' = InsertOrder(uid, price_usd, memo, hs[h].code)
             /\ hs' = [hs EXCEPT ![h].pc = "reply_pay", ![h].price_usd = price_usd,
                                 ![h].bal = bal, ![h].memo = memo]
             /\ running' = h
             /\ UNCHANGED <<balances, feed, credited, deducted, nCredits, scan, cache, clock, calls>>
             /\ creditRun' = NoRun
        ELSE /\ balances' = UpdateBalance(uid, bal - price_usd)
             /\ deducted' = [deducted EXCEPT ![uid] = @ + price_usd]
             /\ hs' = [hs EXCEPT ![h].pc = "submit", ![h].price_usd = price_usd,
                                 ![h].bal = bal, ![h].memo = memo]
             /\ running' = h
             /\ UNCHANGED <<orders, feed, credited, nCredits, scan, cache, clock, calls>>
             /\ creditRun' = NoRun

\* `await q.answer()` returns: lines 319-323, and 325 onwards when the price needs no floor
AfterAnswer(h) ==
    /\ running = NoHandler
    /\ hs[h].pc = "answer"
    /\ IF hs[h].price_s < MinCharge
       THEN /\ hs' = [hs EXCEPT ![h].pc = "floor_msg"]
            /\ UNCHANGED <<balances, orders, running, feed, credited, deducted, nCredits, creditRun, scan, cache, clock, calls>>
       ELSE Quote(h, ChargeAmount(hs[h].price_s))

\* `await q.message.reply_text("Minimum 5 USDT ...")` returns: line 324, then 325 onwards
AfterFloorMsg(h) ==
    /\ running = NoHandler
    /\ hs[h].pc = "floor_msg"
    /\ Quote(h, ChargeAmount(hs[h].price_s))

\* order_esim_open returns None: line 347 (427)
SubmitFails(h) ==
    /\ running = h
    /\ hs[h].pc = "submit"
    /\ hs' = [hs EXCEPT ![h].pc = "reply_fail"]
    /\ UNCHANGED <<balances, orders, running, feed, credited, deducted, nCredits, creditRun, scan, cache, clock, calls>>

\* order_esim_open returns an orderNo: lines 348-353 (428-433)
SubmitSucceeds(h) ==
    /\ running = h
    /\ hs[h].pc = "submit"
    /\ \E order_no \in OrderNos :
        /\ orders' = MarkOrders(hs[h].uid, hs[h].code, hs[h].memo, order_no)
        /\ hs' = [hs EXCEPT ![h].pc = "poll", ![h].order_no = order_no]
    /\ UNCHANGED <<balances, running, feed, credited, deducted, nCredits, creditRun, scan, cache, clock, calls>>

\* one pass of the loop of lines 354-358 (434-438) in which query_esim_open returns nothing
PollEmpty(h) ==
    /\ running = h
    /\ hs[h].pc = "poll"
    /\ hs[h].attempts < PollBudget
    /\ hs' = [hs EXCEPT ![h].attempts = @ + 1]
    /\ UNCHANGED <<balances, orders, running, feed, credited, deducted, nCredits, creditRun, scan, cache, clock, calls>>

\* a pass in which query_esim_open returns profiles: break, then lines 363-365
PollProfiles(h) ==
    /\ running = h
    /\ hs[h].pc = "poll"
    /\ hs[h].attempts < PollBudget
    /\ hs' = [hs EXCEPT ![h].attempts = 0, ![h].pc = "reply_profiles"]
    /\ UNCHANGED <<balances, orders, running, feed, credited, deducted, nCredits, creditRun, scan, cache, clock, calls>>

\* the loop ends with no profiles: lines 359-362 (439-440)
PollExhausted(h) ==
    /\ running = h
    /\ hs[h].pc = "poll"
    /\ hs[h].attempts = PollBudget
    /\ hs' = [hs EXCEPT ![h].attempts = 0, ![h].pc = "reply_pending"]
    /\ UNCHANGED <<balances, orders, running, feed, credited, deducted, nCredits, creditRun, scan, cache, clock, calls>>

ReplyPcs == {"reply_pay", "reply_fail", "reply_pending", "reply_profiles"}

\* the handler's last await returns and the coroutine ends
Return(h) ==
    /\ running = h
    /\ hs[h].pc \in ReplyPcs
    /\ hs' = [hs EXCEPT ![h] = Idle]
    /\ running' = NoHandler
    /\ UNCHANGED <<balances, orders, feed, credited, deducted, nCredits, creditRun, scan, cache, clock, calls>>

\* the mutated form of AdminCredit: the caller is not checked against ADMIN_IDS
AdminCredit_AnyCaller(uid, args) ==
    /\ Len(args) = 2
    /\ nCredits < MaxCredits
    /\ balances' = UpsertBalance(args[1], args[2])
    /\ credited' = [credited EXCEPT ![args[1]] = @ + args[2]]
    /\ creditRun' = NoRun
    /\ nCredits' = nCredits + 1
    /\ UNCHANGED <<orders, hs, running, feed, deducted, scan, cache, clock, calls>>

\* /topup <user_id> <amt> by an admin: lines 498-506
AdminCredit(uid, args) ==
    /\ uid \in ADMIN_IDS /\ Len(args) = 2
    /\ nCredits < MaxCredits
    /\ LET tgt == args[1]
           amt == args[2]
       IN /\ balances' = UpsertBalance(tgt, amt)
          /\ credited' = [credited EXCEPT ![tgt] = @ + amt]
          /\ creditRun' =
                IF creditRun.n > 0 /\ creditRun.tgt = tgt /\ creditRun.amt = amt
                THEN [creditRun EXCEPT !.n = @ + 1]
                ELSE [tgt |-> tgt, amt |-> amt, before |-> GetBalance(tgt),
                      had_row |-> tgt \in DOMAIN balances, n |-> 1]
    /\ nCredits' = nCredits + 1
    /\ UNCHANGED <<orders, hs, running, feed, deducted, scan, cache, clock, calls>>

\* /topup <amount>: lines 507-521
TopupRequest(uid, args) ==
    /\ ~(uid \in ADMIN_IDS /\ Len(args) = 2)
    /\ Len(args) = 1
    /\ RoomForOrder
    /\ \E memo \in generate_memo :
        orders' = InsertOrder(uid, args[1], memo, TopupPlan)
    /\ creditRun' = NoRun
    /\ UNCHANGED <<balances, hs, running, feed, credited, deducted, nCredits, scan, cache, clock, calls>>

\* any other argument list: lines 522-523
TopupUsage(uid, args) ==
    /\ ~(uid \in ADMIN_IDS /\ Len(args) = 2)
    /\ Len(args) # 1
    /\ UNCHANGED vars

TopupArgs == {<<>>} \cup {<<a>> : a \in RequestAmounts}
                    \cup {<<t, a>> : t \in CreditTargets, a \in CreditAmounts}

topup(uid, args) ==
    /\ running = NoHandler
    /\ \/ AdminCredit(uid, args)
       \/ TopupRequest(uid, args)
       \/ TopupUsage(uid, args)

\* A user pays an awaiting order as instructed (amount and memo of lines 335-338):
\* the explorer lists the transfer first (sort=-timestamp, line 113)
PaymentArrives ==
    /\ Len(feed) < MaxFeed
    /\ \E i \in DOMAIN orders :
        /\ orders[i].paid = 0
        /\ orders[i].amount > 0
        /\ feed' = <<[data |-> orders[i].memo,
                      amount_str |-> orders[i].amount * UnitsPerCent]>> \o feed
    /\ UNCHANGED <<balances, orders, hs, running, credited, deducted, nCredits, creditRun, scan, cache, clock, calls>>

HandlerStep(h) ==
    \/ AfterAnswer(h)
    \/ AfterFloorMsg(h)
    \/ SubmitFails(h)
    \/ SubmitSucceeds(h)
    \/ PollEmpty(h)
    \/ PollProfiles(h)
    \/ PollExhausted(h)
    \/ Return(h)

Next ==
    \/ \E h \in Handlers, uid \in Buyers, code \in Plans, p \in ListPrices :
          pkg_handler(h, uid, code, p)
    \/ \E h \in Handlers, uid \in Buyers, code \in Plans, p \in ListPrices :
          topup_plan_handler(h, uid, code, p)
    \/ \E h \in Handlers : HandlerStep(h)
    \/ \E uid \in Users, args \in TopupArgs : topup(uid, args)

\* The program alone: it never reads the feed, which stays as it is
Spec == Init /\ [][Next]_vars

\* The program alone under the event loop's scheduling: every coroutine whose
\* await has completed is resumed
FairProgram ==
    Spec /\ \A h \in Handlers : WF_vars(HandlerStep(h))

\* The program and the wallet's incoming transfers
NextFeed == Next \/ PaymentArrives

\* The event loop resumes every coroutine whose await has completed
FairSpec ==
    Init /\ [][NextFeed]_vars /\ \A h \in Handlers : WF_vars(HandlerStep(h))

----------------------------------------------------------------------------
\* check_tron_payment on its own: no handler calls it, so its inputs are drawn
\* from the sets below

\* tx["data"]: no note, the memo AB alone, inside a longer note, and broken up
ScanNotes    == {<<>>, <<"A", "B">>, <<"X", "A", "B">>, <<"A", "X", "B">>}
\* tx["tokenTransferInfo"]["amount_str"]: 5.000000, 5.009999, 5.010000, 10.000000
ScanAmounts  == {5000000, 5009999, 5010000, 10000000}
\* expected, in cents
ScanExpected == {500, 1000}
\* a transaction; one without tokenTransferInfo has no amount_str
ScanTxs ==
    {[data |-> n, amount_str |-> a] : n \in ScanNotes, a \in ScanAmounts}
        \cup {[data |-> n] : n \in ScanNotes}
ScanFeeds == UNION {[1..n -> ScanTxs] : n \in 0..MaxTxs}

MatchInit ==
    /\ balances = <<>>
    /\ orders = <<>>
    /\ hs = [h \in Handlers |-> Idle]
    /\ running = NoHandler
    /\ feed \in ScanFeeds
    /\ credited = [u \in Users |-> 0]
    /\ deducted = [u \in Users |-> 0]
    /\ nCredits = 0
    /\ creditRun = NoRun
    /\ \E memo \in Memos, expected \in ScanExpected :
          scan = [NoScan EXCEPT !.pc = "call", !.memo = memo, !.expected = expected]
    /\ cache = <<>>
    /\ clock = StartTime
    /\ calls = <<>>

\* check_tron_payment(memo, expected) when the explorer answers
MatchPayment ==
    /\ scan.pc = "call"
    /\ scan' = [scan EXCEPT !.pc = "done",
                    !.result = check_tron_payment(Explorer, scan.memo, scan.expected)]
    /\ UNCHANGED <<balances, orders, hs, running, feed, credited, deducted, nCredits, creditRun, cache, clock, calls>>

\* check_tron_payment(memo, expected) when the request fails
MatchPaymentFetchFails ==
    /\ scan.pc = "call"
    /\ scan' = [scan EXCEPT !.pc = "done", !.ok = FALSE,
                    !.result = check_tron_payment(FetchError, scan.memo, scan.expected)]
    /\ UNCHANGED <<balances, orders, hs, running, feed, credited, deducted, nCredits, creditRun, cache, clock, calls>>

MatchNext == MatchPayment \/ MatchPaymentFetchFails

MatchSpec == MatchInit /\ [][MatchNext]_vars

----------------------------------------------------------------------------
\* ttl_cache on its own: one wrapped function (fetch_packages; fetch_topup_packages
\* has a cache of its own of the same make), called with the arguments, after
\* the delays and with the outcomes of the underlying function drawn below

\* key = (args, tuple(sorted(kwargs.items()))): fetch_packages() and
\* fetch_packages(location_code="US")
CacheKeys    == {"()", "US"}
\* what fn returns: [] when the fetch fails (lines 139, 151), else the packages
FetchResults == {<<>>, <<"PKG">>}
\* seconds between one call of the wrapper and the next
Elapsed      == {0, 1, 3599, 3600}

\* the mutated form of Fresh: an entry exactly ttl_seconds old is still served
Fresh_Inclusive(key, now) ==
    key \in DOMAIN cache /\ now - cache[key][1] <= ttl_seconds

\* entry and now - entry[0] < ttl_seconds: entry is None or a pair, and a pair is
\* true whatever it holds
Fresh(key, now) ==
    key \in DOMAIN cache /\ now - cache[key][1] < ttl_seconds

\* wrapped(*args, **kwargs), lines 70-78, called dt seconds after the last call;
\* result is what fn gives if it is called
wrapped(key, dt, result) ==
    LET now == clock + dt
        hit == Fresh(key, now)
    IN /\ Len(calls) < MaxLookups
       /\ clock' = now
       /\ cache' = IF hit THEN cache
                   ELSE [k \in DOMAIN cache \cup {key} |->
                            IF k = key THEN <<now, result>> ELSE cache[k]]
       /\ calls' = Append(calls, [key |-> key, now |-> now, called |-> ~hit,
                                  ret |-> IF hit THEN cache[key][2] ELSE result,
                                  fetched |-> result])
       /\ UNCHANGED <<balances, orders, hs, running, feed, credited, deducted, nCredits,
                      creditRun, scan>>

CacheNext ==
    \E key \in CacheKeys, dt \in Elapsed, result \in FetchResults :
        wrapped(key, dt, result)

CacheSpec == Init /\ [][CacheNext]_vars

----------------------------------------------------------------------------
\* The program with every user buying and being credited, on one plan price.
\* Invocations are taken one at a time here: the awaits at which a handler gives
\* up the event loop (lines 318 and 324) come before it reads or writes a table,
\* so a suspended invocation holds nothing but its arguments

\* price_s of the one plan on offer here: below the minimum, so 5.00 is charged
SharedPrices == {200}
\* /topup <amount> by anyone and /topup <user_id> 5 by the admin for any user
SharedArgs == {<<a>> : a \in RequestAmounts} \cup {<<t, 500>> : t \in Users}

SharedNext ==
    \/ \E h \in {"h1"}, uid \in Users, code \in Plans, p \in SharedPrices :
          pkg_handler(h, uid, code, p)
    \/ \E h \in {"h1"}, uid \in Users, code \in Plans, p \in SharedPrices :
          topup_plan_handler(h, uid, code, p)
    \/ \E h \in Handlers : HandlerStep(h)
    \/ \E uid \in Users, args \in SharedArgs : topup(uid, args)

SharedSpec == Init /\ [][SharedNext]_vars

----------------------------------------------------------------------------
\* Claims

AfterQuotePcs == {"reply_pay", "submit", "poll", "reply_fail", "reply_pending", "reply_profiles"}

\* C1: No double-spend.  Whenever a purchase deducts from a user's balance, the
\* sum of all deductions taken from that user so far (this one included) does not
\* exceed the balance the user started with (none) plus the credits applied to
\* that user before this deduction, whatever the interleaving of the invocations.
C1_NoDoubleSpend ==
    [][\A u \in Users : deducted'[u] > deducted[u] => deducted'[u] <= credited[u]]_vars

\* C1 witness: a purchase has spent the user's whole credit while a second
\* invocation by the same user is suspended before its balance check.
C1_Witness ==
    \E h \in Handlers, g \in Handlers :
        /\ h # g
        /\ hs[h].pc = "submit"
        /\ hs[g].pc \in {"answer", "floor_msg"}
        /\ hs[h].uid = hs[g].uid
        /\ deducted[hs[h].uid] > 0
        /\ deducted[hs[h].uid] = credited[hs[h].uid]

\* the payment feed shows a transfer of 10.00 whose note contains the memo of
\* order i, an unpaid order of 10.00 for a plan, whose user has balance 0.00
PaymentSeen(i) ==
    /\ i \in DOMAIN orders
    /\ orders[i].paid = 0
    /\ orders[i].plan_id \in Plans
    /\ orders[i].amount = 1000
    /\ GetBalance(orders[i].user_id) = 0
    /\ check_tron_payment(Explorer, orders[i].memo, orders[i].amount)
            = Returned(1000 * UnitsPerCent)

Reconciled(i) ==
    /\ i \in DOMAIN orders
    /\ orders[i].paid = 1
    /\ GetBalance(orders[i].user_id) = 1000

\* C2: A payment is never lost.  Once the feed holds a transaction of 10.00 whose
\* note contains the memo of an awaiting order of 10.00 of a user with balance
\* 0.00, that order eventually becomes paid and the user's balance 10.00.
C2_PaymentNeverLost ==
    \A i \in 1..MaxOrders : PaymentSeen(i) ~> Reconciled(i)

RECURSIVE SumPaid(_, _)
\* the sum of the amounts of the paid orders of user u among the first n rows
SumPaid(u, n) ==
    IF n = 0 THEN 0
    ELSE SumPaid(u, n - 1)
         + (IF orders[n].user_id = u /\ orders[n].paid = 1 THEN orders[n].amount ELSE 0)

\* C3: Reconciliation credits exactly once.  What a user's balance holds beyond
\* the admin credits and the purchase deductions is the amount of each of the
\* user's paid orders, counted once: no more (no double credit), no less.
C3_CreditedExactlyOnce ==
    \A u \in Users :
        GetBalance(u) + deducted[u] - credited[u] = SumPaid(u, Len(orders))

\* C4: Memo uniqueness.  No two order rows carry the same memo.
C4_MemoUnique ==
    \A i \in DOMAIN orders, j \in DOMAIN orders :
        i # j => orders[i].memo # orders[j].memo

\* C5: Balance non-negativity.  Every balance row holds a value >= 0.
C5_BalanceNonNegative ==
    \A u \in DOMAIN balances : balances[u] >= 0

\* C6: Provider rejection is compensated.  When a balance-funded purchase is
\* about to report the failed submission, the user's balance is what it was
\* before the purchase.
C6_RejectionCompensated ==
    \A h \in Handlers :
        hs[h].pc = "reply_fail" => GetBalance(hs[h].uid) = hs[h].bal

\* C7: A balance-funded purchase leaves an order record.  After a successful
\* submission the balance is the former balance less the charge, and some order
\* row of that user and plan is marked paid with the returned orderNo.
C7_FundedPurchaseLeavesOrder ==
    \A h \in Handlers :
        hs[h].pc \in {"poll", "reply_pending", "reply_profiles"} =>
            /\ GetBalance(hs[h].uid) = hs[h].bal - hs[h].price_usd
            /\ \E i \in DOMAIN orders :
                /\ orders[i].user_id = hs[h].uid
                /\ orders[i].plan_id = hs[h].code
                /\ orders[i].paid = 1
                /\ orders[i].order_no = hs[h].order_no

\* C8: Minimum charge.  Past the balance check, the amount charged is 5.00 when
\* the list price is below 5.00 and the list price otherwise; the order row
\* created for an uncovered purchase asks for that amount, and a covered
\* purchase takes that amount from the balance.
C8_MinimumCharge ==
    \A h \in Handlers :
        LET charge == IF hs[h].price_s < 500 THEN 500 ELSE hs[h].price_s
        IN /\ hs[h].pc \in AfterQuotePcs => hs[h].price_usd = charge
           /\ hs[h].pc = "reply_pay" =>
                /\ Len(orders) > 0
                /\ orders[Len(orders)].user_id = hs[h].uid
                /\ orders[Len(orders)].amount = charge
           /\ hs[h].pc = "submit" => GetBalance(hs[h].uid) = hs[h].bal - charge

\* C8 witness: an uncovered purchase of list price 2.00 has created its order.
C8_Witness ==
    \E h \in Handlers :
        /\ hs[h].pc = "reply_pay"
        /\ hs[h].price_s = 200
        /\ orders[Len(orders)].amount = 500

\* C9: Admin credit has no deduplication.  After two admin credits of the same
\* amount A to the same user, one right after the other, the user's balance is
\* the balance before the first plus 2*A (0 + 2*A when there was no row).
C9_TwoCreditsAddTwice ==
    creditRun.n = 2 =>
        GetBalance(creditRun.tgt) = creditRun.before + 2 * creditRun.amt

\* C9 witness: two such credits to a user who had no balance row.
C9_Witness ==
    /\ creditRun.n = 2
    /\ ~creditRun.had_row
    /\ creditRun.amt = 500

\* C10: Order status is monotonic.  An order whose paid flag is set keeps it set
\* in every later state.
C10_PaidIsMonotonic ==
    [][\A i \in DOMAIN orders :
          orders[i].paid = 1 => (i \in DOMAIN orders' /\ orders'[i].paid = 1)]_vars

\* C10 witness: an order is paid, and a later purchase of the same user and plan
\* has run its UPDATE (it carries another memo than the one the order was given).
C10_Witness ==
    \E i \in DOMAIN orders, h \in Handlers :
        /\ orders[i].paid = 1
        /\ hs[h].pc = "poll"
        /\ hs[h].uid = orders[i].user_id
        /\ hs[h].code = orders[i].plan_id
        /\ hs[h].memo # orders[i].memo

\* C11: Order transitions are strictly sequential.  An order is given a provider
\* order reference only when it is already paid, and an order becomes paid only
\* when the feed holds a payment that matches its memo and its amount; no step
\* takes an order from awaiting payment to submitted at once.
C11_PaidThenSubmitted ==
    [][\A i \in DOMAIN orders :
          /\ (orders[i].order_no = NULL /\ orders'[i].order_no # NULL)
                => orders[i].paid = 1
          /\ (orders[i].paid = 0 /\ orders'[i].paid = 1)
                => check_tron_payment(Explorer, orders[i].memo, orders[i].amount).value > 0
      ]_vars

\* handler h takes the step that runs the balance check of line 325 (405)
StepsToQuote(h) ==
    \/ hs[h].pc = "answer" /\ hs[h].price_s >= 500 /\ hs'[h].pc # "answer"
    \/ hs[h].pc = "floor_msg" /\ hs'[h].pc # "floor_msg"

\* C12: Admin credit is restricted to authorized callers.  No /topup by a caller
\* outside the admin set, with no, one or two arguments, changes any balance:
\* a step that changes a balance is no such /topup.
C12_OnlyAdminsCredit ==
    [][\/ balances' = balances
       \/ \A uid \in Users \ ADMIN_IDS, args \in TopupArgs : ~topup(uid, args)]_vars

\* C12 witness: a caller outside the admin set has run /topup <amount> (the
\* request is on record) while a balance row with funds exists.
C12_Witness ==
    /\ \E i \in DOMAIN orders :
          orders[i].plan_id = TopupPlan /\ orders[i].user_id \notin ADMIN_IDS
    /\ \E u \in DOMAIN balances : balances[u] = 500

\* C13: Insufficient-balance purchase.  When the balance is below the charge, the
\* step past the balance check appends exactly one order, unpaid, of that user
\* and plan, asking for the full charge, leaves every balance as it is and goes
\* to the payment instructions, from where the handler only returns: no
\* submission to the provider.
C13_InsufficientBalanceFrame ==
    [][\A h \in Handlers :
          LET charge == IF hs[h].price_s < 500 THEN 500 ELSE hs[h].price_s
              last   == orders'[Len(orders')]
          IN /\ (StepsToQuote(h) /\ GetBalance(hs[h].uid) < charge) =>
                    /\ Len(orders') = Len(orders) + 1
                    /\ SubSeq(orders', 1, Len(orders)) = orders
                    /\ last.user_id = hs[h].uid /\ last.plan_id = hs[h].code
                    /\ last.amount = charge
                    /\ last.paid = 0 /\ last.order_no = NULL
                    /\ balances' = balances
                    /\ hs'[h].pc = "reply_pay"
             /\ hs[h].pc = "reply_pay" => hs'[h].pc \in {"reply_pay", "idle"}
      ]_vars

\* C13 witness: a purchase of 10.00 by a user whose balance is 5.00 has created
\* its order.
C13_Witness ==
    \E h \in Handlers :
        /\ hs[h].pc = "reply_pay"
        /\ hs[h].price_usd = 1000
        /\ hs[h].bal = 500
        /\ GetBalance(hs[h].uid) = 500
        /\ orders[Len(orders)].amount = 1000

\* C14: Memo immutability.  No step changes the memo of an order that exists.
C14_MemoImmutable ==
    [][\A i \in DOMAIN orders : orders'[i].memo = orders[i].memo]_vars

\* the pcs of a handler from the polling loop to its last reply
PollPcs == {"poll", "reply_pending", "reply_profiles"}

\* C15: Bounded allocation polling.  After a successful submission the handler
\* makes at most 15 queries (each pass without profiles is counted, and a pass is
\* made only below 15), leaves the loop at the first query that returns profiles,
\* reports the order as pending only after 15 queries without profiles, and
\* always ends; from the loop to the handler's end no order row and no balance
\* changes: the order stays as the submission marked it and the deduction is
\* kept.
C15_BoundedPolling ==
    /\ [](\A h \in Handlers : hs[h].attempts <= 15)
    /\ [][\A h \in Handlers :
            /\ hs[h].pc \in PollPcs =>
                  orders' = orders /\ balances' = balances /\ deducted' = deducted
            /\ (hs[h].pc = "poll" /\ hs'[h] # hs[h]) =>
                  \/ hs'[h].pc = "poll" /\ hs'[h].attempts = hs[h].attempts + 1
                  \/ hs'[h].pc = "reply_profiles" /\ hs[h].attempts < 15
                  \/ hs'[h].pc = "reply_pending" /\ hs[h].attempts = 15
            /\ (hs[h].pc \in {"reply_pending", "reply_profiles"} /\ hs'[h] # hs[h]) =>
                  hs'[h].pc = "idle"
        ]_vars
    /\ \A h \in Handlers : (hs[h].pc = "poll") ~> (hs[h].pc = "idle")

\* C15 witness: a handler has used up its 15 queries and is about to report the
\* order as pending, with the charge taken from the balance.
C15_Witness ==
    \E h \in Handlers :
        /\ hs[h].pc = "reply_pending"
        /\ deducted[hs[h].uid] > 0
        /\ GetBalance(hs[h].uid) = hs[h].bal - hs[h].price_usd

\* the transactions of the feed all carry an amount
WellFormed == \A i \in DOMAIN feed : "amount_str" \in DOMAIN feed[i]

\* the transactions whose note contains the memo and whose amount is less than
\* 0.01 (10000 units) away from expected, by position in the feed
Hits ==
    {i \in DOMAIN feed :
        /\ Contains(feed[i].data, scan.memo)
        /\ Abs(feed[i].amount_str - scan.expected * 10000) < 10000}

\* C16: Payment matching result.  On a fetched feed whose transactions all carry
\* an amount, check_tron_payment returns the amount of the first transaction, in
\* feed order, whose note contains the memo and whose amount is less than 0.01
\* away from expected, and 0 when there is none; transactions before it that match
\* the memo but not the amount are passed over.
C16_MatchResult ==
    (scan.pc = "done" /\ scan.ok /\ WellFormed) =>
        /\ ~scan.result.raised
        /\ scan.result.value =
              IF Hits = {} THEN 0
              ELSE feed[CHOOSE i \in Hits : \A j \in Hits : i <= j].amount_str

\* some transaction whose note contains the memo has no amount, and no matching
\* transaction stands before it
MalformedFirst ==
    \E i \in DOMAIN feed :
        /\ NoteMatches(feed[i], scan.memo)
        /\ "amount_str" \notin DOMAIN feed[i]
        /\ \A j \in 1..(i - 1) :
              NoteMatches(feed[j], scan.memo) =>
                 /\ "amount_str" \in DOMAIN feed[j]
                 /\ ~WithinTolerance(feed[j].amount_str, scan.expected)

\* C17: Payment matcher never fails.  check_tron_payment never raises; when the
\* fetch fails, or the scan comes upon a transaction that matches the memo and
\* has no amount, it returns 0.
C17_MatcherNeverRaises ==
    scan.pc = "done" =>
        /\ ~scan.result.raised
        /\ (~scan.ok \/ MalformedFirst) => scan.result.value = 0

\* C17 witness: the scan has met a transaction that matches the memo and has no
\* amount, with a well-formed match behind it, and has returned 0.
C17_Witness ==
    /\ scan.pc = "done" /\ scan.ok
    /\ Len(feed) = 2
    /\ NoteMatches(feed[1], scan.memo) /\ "amount_str" \notin DOMAIN feed[1]
    /\ NoteMatches(feed[2], scan.memo) /\ "amount_str" \in DOMAIN feed[2]
    /\ WithinTolerance(feed[2].amount_str, scan.expected)
    /\ scan.result = Returned(0)

\* C18: Minimum-payment floor on every order.  Every order row asks for at least
\* 5.00.
C18_EveryOrderAtLeastMinimum ==
    \A i \in DOMAIN orders : orders[i].amount >= 500

\* C19: Balance conservation.  In every state a user's balance is the sum of the
\* admin credits to that user less the sum of the charges of the user's
\* balance-funded purchases; a step that adds an order row (a top-up request or
\* a purchase the balance does not cover) changes no balance, and a step changes
\* a balance only together with a credit or a charge of that user.
C19_BalanceConservation ==
    /\ [](\A u \in Users : GetBalance(u) = credited[u] - deducted[u])
    /\ [][/\ Len(orders') > Len(orders) => balances' = balances
          /\ \A u \in Users :
                GetBalance(u)' # GetBalance(u) =>
                    \/ credited'[u] # credited[u] /\ deducted'[u] = deducted[u]
                    \/ deducted'[u] # deducted[u] /\ credited'[u] = credited[u]
        ]_vars

\* C19 witness: a user was credited twice and charged once, and has an order
\* awaiting payment.
C19_Witness ==
    \E u \in Users :
        /\ credited[u] = 1000 /\ deducted[u] = 500 /\ GetBalance(u) = 500
        /\ \E i \in DOMAIN orders : orders[i].user_id = u /\ orders[i].paid = 0

\* C20: Paid flag and provider reference agree.  An order is paid exactly when
\* its order_no is not NULL.
C20_PaidIffOrderNo ==
    \A i \in DOMAIN orders : orders[i].paid = 1 <=> orders[i].order_no # NULL

\* C20 witness: a paid order with its provider reference next to an unpaid one
\* without.
C20_Witness ==
    \E i \in DOMAIN orders, j \in DOMAIN orders :
        /\ orders[i].paid = 1 /\ orders[i].order_no = "ON1"
        /\ orders[j].paid = 0 /\ orders[j].order_no = NULL

\* the step is one of a purchase (pkg_handler, topup_plan_handler) invoked by
\* user u, or u's /topup <amount>
StepOf(u) ==
    \/ \E h \in Handlers :
          hs'[h] # hs[h] /\ (hs[h].uid = u \/ hs'[h].uid = u)
    \/ \E args \in TopupArgs \cup SharedArgs : TopupRequest(u, args)

\* C21: Per-user isolation.  A step of a purchase or of a top-up request invoked
\* by user u leaves every other user's balance row as it is (present or absent,
\* and its value), leaves every order row of another user as it is, and adds
\* only order rows whose user_id is u.
C21_PerUserIsolation ==
    [][\A u \in Users :
          StepOf(u) =>
             /\ \A v \in Users \ {u} :
                   /\ (v \in DOMAIN balances') = (v \in DOMAIN balances)
                   /\ GetBalance(v)' = GetBalance(v)
             /\ Len(orders') >= Len(orders)
             /\ \A i \in DOMAIN orders :
                   orders[i].user_id # u => orders'[i] = orders[i]
             /\ \A i \in DOMAIN orders' \ DOMAIN orders : orders'[i].user_id = u
      ]_vars

\* C21 witness: a user's balance-funded purchase has run its UPDATE for a plan
\* for which another user, who has a balance too, holds an order awaiting
\* payment.
C21_Witness ==
    \E h \in Handlers, i \in DOMAIN orders :
        /\ hs[h].pc = "poll"
        /\ orders[i].user_id # hs[h].uid
        /\ orders[i].plan_id = hs[h].code
        /\ orders[i].paid = 0
        /\ GetBalance(orders[i].user_id) > 0

\* the last call of the wrapper, and the calls before it for the same key in
\* which the wrapped function ran
LastCall == calls[Len(calls)]
PrevRuns == {i \in 1..(Len(calls) - 1) : calls[i].key = LastCall.key /\ calls[i].called}
PrevRun  == calls[CHOOSE i \in PrevRuns : \A j \in PrevRuns : j <= i]

\* C22: TTL cache.  A call of the wrapper for a key made less than 3600 seconds
\* after the wrapped function last ran for that key returns what that run gave
\* (the empty list too) without running the function and leaves the entry as it
\* is; a call made 3600 seconds or more after it runs the function, returns its
\* result and stores it with the time of the call.
C22_TtlCache ==
    (Len(calls) > 0 /\ PrevRuns # {}) =>
        IF LastCall.now - PrevRun.now < 3600
        THEN /\ ~LastCall.called
             /\ LastCall.ret = PrevRun.fetched
             /\ cache[LastCall.key] = <<PrevRun.now, PrevRun.fetched>>
        ELSE /\ LastCall.called
             /\ LastCall.ret = LastCall.fetched
             /\ cache[LastCall.key] = <<LastCall.now, LastCall.fetched>>

\* C22 witness: the function gave the empty list for a key, and a call 3599
\* seconds later, after a call for the other key, was served the empty list
\* from the cache.
C22_Witness ==
    /\ Len(calls) = 3
    /\ calls[1].key = calls[3].key /\ calls[2].key # calls[1].key
    /\ calls[1].called /\ calls[1].fetched = <<>>
    /\ calls[3].now = calls[1].now + 3599
    /\ ~calls[3].called
    /\ calls[3].ret = <<>>
    /\ calls[3].fetched # <<>>

====
